---- MODULE Spec2Model ----
(***************************************************************************)
(* State-machine model of FINNExampleOverlay (finn_examples/driver.py):    *)
(* the driver object, the heap of device buffers it allocates, and the     *)
(* control registers / completion handles of the output DMA engines.       *)
(*                                                                         *)
(* Python lists are modelled as sequences indexed from 1, so "engine o" of *)
(* the model is odma[o-1] of the source.  A call that raises is modelled   *)
(* by the exception's name in `result`; `trace` holds the hardware         *)
(* accesses made by the call that is running or that ran last.             *)
(***************************************************************************)
EXTENDS Integers, Sequences, FiniteSets, TLC

\* ---------------------------------------------------------------- bounds
MaxInputs == 2
MaxOutputs == 2
MaxExtWeights == 1
MaxBatch == 2
MaxRtWeights == 1

\* ------------------------------------------------------ program constants
\* register offsets and status bits used by the zynq-iodma branch
REG_CTRL == 0
REG_ADDR == 16
REG_BATCH == 28
AP_START == 1
AP_DONE == 2
AP_IDLE == 4
\* batch_size=None : "use the configured batch size"
NoneBatch == -1

None == "None"
Pending == "pending"
KnownPlatforms == {"alveo", "zynq-iodma"}
UnknownPlatforms == {"unknown"}
Platforms == KnownPlatforms \cup UnknownPlatforms
BatchValues == 0..MaxBatch
BatchArgs == {NoneBatch} \cup (0..(MaxBatch + 1))

\* v & bit # 0, for bit a power of two
BitSet(v, bit) == (v \div bit) % 2 = 1

\* the values the control register of an engine takes: running, idle after
\* reset, idle after a completed transfer
StatusBusy == AP_START
StatusIdle == AP_IDLE
StatusDone == AP_IDLE + AP_DONE

VARIABLES
    self,       \* the fields of the FINNExampleOverlay object
    fs,         \* runtime_weight_dir on disk: is it a directory, how many
                \* <engine>.npy files in it name an engine of the overlay
    allocated,  \* ids of the device buffers that are alive (pynq.allocate)
    hw,         \* hw[o]: control register of output engine o
    pc,         \* "new", "ready" (between calls), "waiting" (inside
                \* wait_until_finished), "failed" (__init__ raised)
    call,       \* the call running or last returned, with its arguments
    result,     \* "running", "ok" or the exception raised
    trace,      \* hardware accesses of that call, in order
    waitIdx,    \* loop variable o of wait_until_finished while pc = "waiting"
    mem,        \* mem[id]: contents of device buffer id, one entry per
                \* element of the batch dimension
    host,       \* host[o]: contents of the host buffer obuf_packed[o]
    ret,        \* the value execute returned
    accel       \* what the accelerator computes: "identity" (a pass-through
                \* stub) or "opaque" (a function the model does not track)

dataVars == <<mem, host, ret, accel>>
vars == <<self, fs, allocated, hw, pc, call, result, trace, waitIdx, mem, host, ret, accel>>

\* ------------------------------------------------------------ descriptor
\* io_shape_dict for ni inputs and no outputs.  input_dma_name and
\* output_dma_name are the numbers of engines __init__ binds: one per name
\* listed under the key (a list of num_inputs / num_outputs names), and 1
\* when the key is absent (the single conventional name idma0 / odma0).
\* The leading dimension stored in the descriptor is the build-time batch
\* of 1.
Shapes(n, inner) == [i \in 1..n |-> <<1, i, inner>>]
Flat(n, inner) == [i \in 1..n |-> <<1, i * inner>>]
Descriptor(ni, no, nin, non) ==
    [num_inputs |-> ni, num_outputs |-> no,
     input_dma_name |-> nin, output_dma_name |-> non,
     ishape_normal |-> Flat(ni, 4), ishape_folded |-> Shapes(ni, 4),
     ishape_packed |-> Shapes(ni, 2),
     oshape_normal |-> Flat(no, 2), oshape_folded |-> Shapes(no, 2),
     oshape_packed |-> Shapes(no, 1),
     number_of_external_weights |-> {}]

\* the optional key number_of_external_weights: the empty set when the key
\* is absent, {n} when the descriptor declares n external weights
DeclaresCount(io) == io.number_of_external_weights # {}
WithCount(io, n) == [io EXCEPT !.number_of_external_weights = {n}]

Descriptors ==
    UNION {{Descriptor(ni, no, nin, non) : nin \in {1, ni}, non \in {1, no}} :
                ni \in 1..MaxInputs, no \in 1..MaxOutputs}

\* ----------------------------------------------------------- shape queries
ReplaceBatch(shape, n) == [shape EXCEPT ![1] = n]
\* (mutant) the shape the descriptor stores, with the batch of the build
ishape_normal_of_build(s, ind) == s.io_shape_dict.ishape_normal[ind]
ishape_normal(s, ind) == ReplaceBatch(s.io_shape_dict.ishape_normal[ind], s.batch_size)
oshape_normal(s, ind) == ReplaceBatch(s.io_shape_dict.oshape_normal[ind], s.batch_size)
ishape_folded(s, ind) == ReplaceBatch(s.io_shape_dict.ishape_folded[ind], s.batch_size)
oshape_folded(s, ind) == ReplaceBatch(s.io_shape_dict.oshape_folded[ind], s.batch_size)
ishape_packed(s, ind) == ReplaceBatch(s.io_shape_dict.ishape_packed[ind], s.batch_size)
oshape_packed(s, ind) == ReplaceBatch(s.io_shape_dict.oshape_packed[ind], s.batch_size)
num_inputs(s) == s.io_shape_dict.num_inputs
num_outputs(s) == s.io_shape_dict.num_outputs

\* ------------------------------------------------------------- allocator
\* pynq.allocate: a buffer distinct from every buffer that is alive
FreshId(alloc) ==
    CHOOSE k \in 1..(Cardinality(alloc) + 1) :
        k \notin alloc /\ \A j \in 1..(k - 1) : j \in alloc

Buffer(id, shape, cacheable) == [id |-> id, shape |-> shape, cacheable |-> cacheable]

BufIds(bufs) == {bufs[k].id : k \in 1..Len(bufs)}

RECURSIVE AllocateAll(_, _, _, _)
\* allocate one buffer per shape of shapes[k..], in order
AllocateAll(alloc, shapes, k, cacheable) ==
    IF k > Len(shapes) THEN [bufs |-> <<>>, alloc |-> alloc]
    ELSE LET id == FreshId(alloc)
             rest == AllocateAll(alloc \cup {id}, shapes, k + 1, cacheable)
         IN [bufs |-> <<Buffer(id, shapes[k], cacheable)>> \o rest.bufs,
             alloc |-> rest.alloc]

\* ------------------------------------------------------ batch_size setter
\* (mutant) the old buffers are kept alive
ReleaseNothing(alloc, s) == alloc

\* Buffers freed by dropping the last reference to them (lines 266-269).
Release(alloc, s) ==
    alloc \ (BufIds(s.ibuf_packed_device) \cup BufIds(s.obuf_packed_device))

PackedShapes(s, value, dir) ==
    LET s1 == [s EXCEPT !.batch_size = value] IN
    IF dir = "in" THEN [i \in 1..num_inputs(s) |-> ishape_packed(s1, i)]
    ELSE [o \in 1..num_outputs(s) |-> oshape_packed(s1, o)]

\* (mutant) an unlisted platform falls back to a default cache policy
HasCachePolicyDefaulted(platform) == TRUE

\* {"alveo": False, "zynq-iodma": True}[self.platform] finds the key
HasCachePolicy(platform) == platform \in KnownPlatforms

\* self.batch_size = value.  The value is stored first, then the old buffers
\* are dropped, then the platform is looked up (KeyError when it is not one
\* of the two known ones, the buffer fields staying None, modelled as the
\* empty list), then the new buffers are allocated.
batch_size_setter(s, alloc, value) ==
    LET freed == Release(alloc, s)
        s1 == [s EXCEPT !.batch_size = value,
                        !.ibuf_packed_device = <<>>,
                        !.obuf_packed_device = <<>>]
    IN  IF ~HasCachePolicy(s.platform)
        THEN [self |-> s1, alloc |-> freed, err |-> "KeyError"]
        ELSE LET cacheable == (s.platform = "zynq-iodma")
                 ins == AllocateAll(freed, PackedShapes(s, value, "in"), 1, cacheable)
                 outs == AllocateAll(ins.alloc, PackedShapes(s, value, "out"), 1, cacheable)
             IN [self |-> [s1 EXCEPT !.ibuf_packed_device = ins.bufs,
                                     !.obuf_packed_device = outs.bufs,
                                     !.obuf_packed = PackedShapes(s, value, "out")],
                 alloc |-> outs.alloc, err |-> "none"]

\* ------------------------------------------------------- hardware accesses
Ev(op, dev, idx, a, b) == [op |-> op, dev |-> dev, idx |-> idx, a |-> a, b |-> b]
\* engine.read(off) returning val, engine.write(off, val)
RegRead(dev, idx, off, val) == Ev("read", dev, idx, off, val)
RegWrite(dev, idx, off, val) == Ev("write", dev, idx, off, val)
\* engine.start(buf, batch_size), handle.wait()
DmaStart(dev, idx, buf, bs) == Ev("start", dev, idx, buf.id, bs)
HandleWait(idx) == Ev("wait", "odma", idx, 0, 0)

Out(err, ev) == [err |-> err, ev |-> ev]

\* the three register writes that program and start one IODMA
IodmaLaunch(dev, idx, buf, bs) ==
    << RegWrite(dev, idx, REG_ADDR, buf.id),
       RegWrite(dev, idx, REG_BATCH, bs),
       RegWrite(dev, idx, REG_CTRL, 1) >>

IsStartOf(e, o) ==
    /\ e.dev = "odma" /\ e.idx = o
    /\ \/ e.op = "start"
       \/ e.op = "write" /\ e.a = REG_CTRL /\ e.b = 1

\* an output engine that was started is running
HwAfter(h, ev) ==
    [o \in DOMAIN h |->
        IF \E k \in 1..Len(ev) : IsStartOf(ev[k], o) THEN StatusBusy ELSE h[o]]

\* ------------------------------------------- execute_on_buffers, zynq-iodma
\* (mutant) only the first output engine is checked for idle
IdleCheckFirstOnly(s, h, o) ==
    IF s.odma < 1 THEN Out("IndexError", <<>>)
    ELSE LET rd == RegRead("odma", 1, REG_CTRL, h[1]) IN
         Out(IF BitSet(h[1], AP_IDLE) THEN "none" ELSE "AssertionError", <<rd>>)

RECURSIVE IdleCheck(_, _, _)
\* for o in range(num_outputs): assert odma[o].read(0x00) & 0x4 != 0
IdleCheck(s, h, o) ==
    IF o > num_outputs(s) THEN Out("none", <<>>)
    ELSE IF o > s.odma THEN Out("IndexError", <<>>)
    ELSE LET rd == RegRead("odma", o, REG_CTRL, h[o]) IN
         IF ~BitSet(h[o], AP_IDLE) THEN Out("AssertionError", <<rd>>)
         ELSE LET rest == IdleCheck(s, h, o + 1)
              IN Out(rest.err, <<rd>> \o rest.ev)

RECURSIVE WeightWrites(_, _, _)
WeightWrites(s, w, bs) ==
    IF w > Len(s.external_weights) THEN <<>>
    ELSE IodmaLaunch("iwdma", w, s.external_weights[w], bs) \o WeightWrites(s, w + 1, bs)

RECURSIVE OutputWrites(_, _, _)
OutputWrites(s, o, bs) ==
    IF o > num_outputs(s) THEN Out("none", <<>>)
    ELSE IF o > s.odma \/ o > Len(s.obuf_packed_device) THEN Out("IndexError", <<>>)
    ELSE LET rest == OutputWrites(s, o + 1, bs)
         IN Out(rest.err, IodmaLaunch("odma", o, s.obuf_packed_device[o], bs) \o rest.ev)

RECURSIVE InputWrites(_, _, _)
InputWrites(s, i, bs) ==
    IF i > num_inputs(s) THEN Out("none", <<>>)
    ELSE IF i > s.idma \/ i > Len(s.ibuf_packed_device) THEN Out("IndexError", <<>>)
    ELSE LET rest == InputWrites(s, i + 1, bs)
         IN Out(rest.err, IodmaLaunch("idma", i, s.ibuf_packed_device[i], bs) \o rest.ev)

\* (mutant) the input engines are programmed and started ahead of the
\* output engines
LaunchZynqInputsFirst(s, h, bs) ==
    LET chk == IdleCheck(s, h, 1) IN
    IF chk.err # "none" THEN [self |-> s, err |-> chk.err, ev |-> chk.ev]
    ELSE LET w == WeightWrites(s, 1, bs)
             i == InputWrites(s, 1, bs)
             o == IF i.err = "none" THEN OutputWrites(s, 1, bs) ELSE Out(i.err, <<>>)
         IN [self |-> s, err |-> o.err, ev |-> chk.ev \o w \o i.ev \o o.ev]

\* lines 350-365: idle check of every output engine, then external-weight,
\* output and input engines are programmed and started, in that order
LaunchZynq(s, h, bs) ==
    LET chk == IdleCheck(s, h, 1) IN
    IF chk.err # "none" THEN [self |-> s, err |-> chk.err, ev |-> chk.ev]
    ELSE LET w == WeightWrites(s, 1, bs)
             o == OutputWrites(s, 1, bs)
             i == IF o.err = "none" THEN InputWrites(s, 1, bs) ELSE Out(o.err, <<>>)
         IN [self |-> s, err |-> i.err, ev |-> chk.ev \o w \o o.ev \o i.ev]

\* ------------------------------------------------ execute_on_buffers, alveo
\* (mutant) the pending-handle assertion left out
HandleCheckAbsent(s, o) ==
    IF num_outputs(s) > Len(s.odma_handle) THEN "IndexError" ELSE "none"

RECURSIVE HandleCheck(_, _)
\* for o in range(num_outputs): assert odma_handle[o] is None
HandleCheck(s, o) ==
    IF o > num_outputs(s) THEN "none"
    ELSE IF o > Len(s.odma_handle) THEN "IndexError"
    ELSE IF s.odma_handle[o] # None THEN "AssertionError"
    ELSE HandleCheck(s, o + 1)

RECURSIVE InputStarts(_, _, _)
InputStarts(s, i, bs) ==
    IF i > num_inputs(s) THEN Out("none", <<>>)
    ELSE IF i > s.idma \/ i > Len(s.ibuf_packed_device) THEN Out("IndexError", <<>>)
    ELSE LET rest == InputStarts(s, i + 1, bs)
         IN Out(rest.err, <<DmaStart("idma", i, s.ibuf_packed_device[i], bs)>> \o rest.ev)

RECURSIVE WeightStarts(_, _, _)
WeightStarts(s, w, bs) ==
    IF w > Len(s.external_weights) THEN <<>>
    ELSE <<DmaStart("iwdma", w, s.external_weights[w], bs)>> \o WeightStarts(s, w + 1, bs)

RECURSIVE OutputStarts(_, _, _)
\* odma_handle[o] = odma[o].start(obuf_packed_device[o], batch_size)
OutputStarts(s, o, bs) ==
    IF o > num_outputs(s) THEN [self |-> s, err |-> "none", ev |-> <<>>]
    ELSE IF o > s.odma \/ o > Len(s.obuf_packed_device)
         THEN [self |-> s, err |-> "IndexError", ev |-> <<>>]
    ELSE LET s1 == [s EXCEPT !.odma_handle[o] = Pending]
             rest == OutputStarts(s1, o + 1, bs)
         IN [self |-> rest.self, err |-> rest.err,
             ev |-> <<DmaStart("odma", o, s.obuf_packed_device[o], bs)>> \o rest.ev]

\* (mutant) the output engines are started ahead of the input and the
\* external-weight engines
LaunchAlveoOutputsFirst(s, bs) ==
    LET chk == HandleCheck(s, 1) IN
    IF chk # "none" THEN [self |-> s, err |-> chk, ev |-> <<>>]
    ELSE LET o == OutputStarts(s, 1, bs) IN
         IF o.err # "none" THEN [self |-> o.self, err |-> o.err, ev |-> o.ev]
         ELSE LET i == InputStarts(s, 1, bs)
                  w == WeightStarts(s, 1, bs)
              IN [self |-> o.self, err |-> i.err, ev |-> o.ev \o i.ev \o w]

\* lines 366-374: no handle may be pending; inputs, external weights and
\* outputs are started, each output's handle is stored
LaunchAlveo(s, bs) ==
    LET chk == HandleCheck(s, 1) IN
    IF chk # "none" THEN [self |-> s, err |-> chk, ev |-> <<>>]
    ELSE LET i == InputStarts(s, 1, bs) IN
         IF i.err # "none" THEN [self |-> s, err |-> i.err, ev |-> i.ev]
         ELSE LET w == WeightStarts(s, 1, bs)
                  o == OutputStarts(s, 1, bs)
              IN [self |-> o.self, err |-> o.err, ev |-> i.ev \o w \o o.ev]

\* -------------------------------------------------------- wait_until_finished
\* the loop "for o in range(num_outputs)" arriving at index o
WaitNext(s, o) ==
    IF o > num_outputs(s) THEN [err |-> "ok", idx |-> 0]
    ELSE IF \/ s.platform = "zynq-iodma" /\ o > s.odma
            \/ s.platform = "alveo" /\ o > Len(s.odma_handle)
         THEN [err |-> "IndexError", idx |-> 0]
    ELSE [err |-> "running", idx |-> o]

\* (mutant) the "No odma_handle to wait on" assertion left out
WaitEnterUnchecked(s) ==
    IF s.platform \in KnownPlatforms THEN WaitNext(s, 1)
    ELSE [err |-> "Exception", idx |-> 0]

\* entry of wait_until_finished: "running" when it goes on to block on the
\* first output engine
WaitEnter(s) ==
    IF s.platform = "zynq-iodma" THEN WaitNext(s, 1)
    ELSE IF s.platform = "alveo"
         THEN IF \E k \in 1..Len(s.odma_handle) : s.odma_handle[k] = None
              THEN [err |-> "AssertionError", idx |-> 0]
              ELSE WaitNext(s, 1)
    ELSE [err |-> "Exception", idx |-> 0]

\* ---------------------------------------------------------- execute_on_buffers
\* (mutant) the test of the flag inverted, as the docstring describes it
BlocksAfterLaunchInverted(asynch) == asynch = TRUE

\* if asynch is False: self.wait_until_finished()
BlocksAfterLaunch(asynch) == asynch = FALSE

\* (mutant) the batch size argument is ignored
EffectiveBatchConfigured(s, bsArg) == s.batch_size

\* the batch size handed to the engines
EffectiveBatch(s, bsArg) == IF bsArg = NoneBatch THEN s.batch_size ELSE bsArg

\* (mutant) the bound taken strictly
BatchTooLargeStrict(s, bs) == bs >= s.batch_size

\* assert batch_size <= self.batch_size
BatchTooLarge(s, bs) == bs > s.batch_size

Launch(s, h, bs) ==
    IF s.platform = "zynq-iodma" THEN LaunchZynq(s, h, bs)
    ELSE IF s.platform = "alveo" THEN LaunchAlveo(s, bs)
    ELSE [self |-> s, err |-> "Exception", ev |-> <<>>]

\* the call up to the point where it returns, raises or starts to block
execute_on_buffers(s, h, asynch, bsArg) ==
    LET bs == EffectiveBatch(s, bsArg) IN
    IF BatchTooLarge(s, bs)
    THEN [self |-> s, err |-> "AssertionError", ev |-> <<>>, idx |-> 0]
    ELSE LET l == Launch(s, h, bs) IN
         IF l.err # "none" THEN [self |-> l.self, err |-> l.err, ev |-> l.ev, idx |-> 0]
         ELSE IF BlocksAfterLaunch(asynch)
              THEN LET w == WaitEnter(l.self)
                   IN [self |-> l.self, err |-> w.err, ev |-> l.ev, idx |-> w.idx]
         ELSE [self |-> l.self, err |-> "ok", ev |-> l.ev, idx |-> 0]

\* ------------------------------------------------------------ device memory
\* A buffer of shape (n, ...) holds n rows.  A row is the sequence of its
\* byte groups, or Unknown: bytes the model does not track (memory that was
\* never written, the output of an opaque accelerator).
Unknown == <<>>
NoValue == <<>>
FreshContents(shape) == [b \in 1..shape[1] |-> Unknown]

HeldBuffers(s) ==
    {s.ibuf_packed_device[k] : k \in 1..Len(s.ibuf_packed_device)}
        \cup {s.obuf_packed_device[k] : k \in 1..Len(s.obuf_packed_device)}
        \cup {s.external_weights[k] : k \in 1..Len(s.external_weights)}

\* memory once the driver holds the buffers of s: the buffers in `kept` are
\* the ones it held before, every other one is newly allocated
MemOf(m, s, kept) ==
    [id \in {b.id : b \in HeldBuffers(s)} |->
        IF id \in kept /\ id \in DOMAIN m THEN m[id]
        ELSE FreshContents((CHOOSE b \in HeldBuffers(s) : b.id = id).shape)]

\* np.empty_like(new_packed_obuf) for every output
HostOf(s) == [o \in 1..Len(s.obuf_packed) |-> FreshContents(s.obuf_packed[o])]

\* the batch size output engine o was started with by the accesses ev
StartedBatch(ev, o) ==
    LET k == CHOOSE k \in 1..Len(ev) :
                /\ ev[k].dev = "odma" /\ ev[k].idx = o
                /\ \/ ev[k].op = "start"
                   \/ ev[k].op = "write" /\ ev[k].a = REG_BATCH
    IN ev[k].b
Started(ev, dev, i) ==
    \E k \in 1..Len(ev) :
        /\ ev[k].dev = dev /\ ev[k].idx = i
        /\ \/ ev[k].op = "start"
           \/ ev[k].op = "write" /\ ev[k].a = REG_CTRL /\ ev[k].b = 1

\* the row the accelerator produces for output o from a row of input o
Accelerate(row) == IF accel = "identity" THEN row ELSE Unknown

\* The transfers of a launch: output engine o, started with batch size bs on
\* buffer obuf_packed_device[o], writes the first bs rows of that buffer,
\* computed from the rows input engine o reads.  The rows are fixed by the
\* launch and are written with it; the done bit follows (HwFinish).
DmaTransfer(m, s, ev) ==
    [id \in DOMAIN m |->
        IF \E o \in 1..Len(s.obuf_packed_device) :
              s.obuf_packed_device[o].id = id /\ Started(ev, "odma", o)
        THEN LET o == CHOOSE o \in 1..Len(s.obuf_packed_device) :
                        s.obuf_packed_device[o].id = id /\ Started(ev, "odma", o)
                 bs == StartedBatch(ev, o)
                 fed == o <= Len(s.ibuf_packed_device) /\ Started(ev, "idma", o)
             IN [b \in 1..Len(m[id]) |->
                    IF b > bs THEN m[id][b]
                    ELSE IF fed /\ b <= Len(m[s.ibuf_packed_device[o].id])
                         THEN Accelerate(m[s.ibuf_packed_device[o].id][b])
                    ELSE Unknown]
        ELSE m[id]]

\* ------------------------------------------------- fold, pack, unpack, unfold
\* a numpy array: its shape and its elements, data[b] being the b-th entry
\* along the leading (batch) dimension
Tensor(shape, data) == [shape |-> shape, data |-> data]

\* ibuf_normal.reshape(folded shape): (n, w) to (n, f, l) with w = f * l,
\* the elements keeping their row-major order
Reshape(t, shape) ==
    Tensor(shape,
           [b \in 1..shape[1] |->
               [g \in 1..shape[2] |->
                   [l \in 1..shape[3] |-> t.data[b][(g - 1) * shape[3] + l]]]])

\* obuf_folded.reshape(normal shape): (n, f, l) to (n, f * l); a row whose
\* bytes are not tracked stays Unknown
Flatten(t, shape) ==
    Tensor(shape,
           [b \in 1..shape[1] |->
               IF t.data[b] = Unknown THEN Unknown
               ELSE [j \in 1..shape[2] |->
                        t.data[b][((j - 1) \div t.shape[3]) + 1][((j - 1) % t.shape[3]) + 1]]])


\* (mutant) only a list that is too short is refused
ArityMismatchTooFew(s, input_npy) == num_inputs(s) > Len(input_npy)

\* assert self.num_inputs == len(input_npy)
ArityMismatch(s, input_npy) == num_inputs(s) # Len(input_npy)

RECURSIVE Size(_)
\* the number of elements of an array of this shape
Size(shape) == IF shape = <<>> THEN 1 ELSE Head(shape) * Size(Tail(shape))

\* fold_input: the shape must be ishape_normal(ind), then a reshape (which
\* numpy refuses when the number of elements differs)
fold_input(s, ibuf_normal, ind) ==
    IF ibuf_normal.shape # ishape_normal(s, ind)
    THEN [err |-> "AssertionError", val |-> NoValue]
    ELSE IF Size(ibuf_normal.shape) # Size(ishape_folded(s, ind))
    THEN [err |-> "ValueError", val |-> NoValue]
    ELSE [err |-> "none", val |-> Reshape(ibuf_normal, ishape_folded(s, ind))]

Reverse(v) == [k \in 1..Len(v) |-> v[Len(v) + 1 - k]]

\* finnpy_to_packed_bytearray on one innermost vector of 4-bit elements,
\* reverse_inner and reverse_endian set: the vector is reversed, padded at
\* the front to whole bytes, packed most significant element first, and the
\* bytes are reversed
PackVector(v) ==
    LET r == IF Len(v) % 2 = 1 THEN <<0>> \o Reverse(v) ELSE Reverse(v)
    IN Reverse([k \in 1..(Len(r) \div 2) |-> 16 * r[2 * k - 1] + r[2 * k]])

\* (mutant) the innermost dimension is not reversed back
UnpackVectorUnreversed(bytes, l) ==
    LET r == Reverse(bytes)
        e == [k \in 1..(2 * Len(r)) |->
                IF k % 2 = 1 THEN r[(k + 1) \div 2] \div 16 ELSE r[k \div 2] % 16]
    IN [k \in 1..l |-> e[2 * Len(r) - l + k]]

\* packed_bytearray_to_finnpy on the bytes of one innermost vector of l
\* elements: the inverse steps in the inverse order
UnpackVector(bytes, l) ==
    LET r == Reverse(bytes)
        e == [k \in 1..(2 * Len(r)) |->
                IF k % 2 = 1 THEN r[(k + 1) \div 2] \div 16 ELSE r[k \div 2] % 16]
    IN Reverse([k \in 1..l |-> e[2 * Len(r) - l + k]])

\* pack_input: the packed array has the folded shape with the innermost
\* dimension replaced by the number of bytes
pack_input(s, ibuf_folded, ind) ==
    LET sh == ibuf_folded.shape IN
    Tensor(<<sh[1], sh[2], (sh[3] + 1) \div 2>>,
           [b \in 1..sh[1] |-> [g \in 1..sh[2] |-> PackVector(ibuf_folded.data[b][g])]])

\* unpack_output: to elements, in the shape oshape_folded(ind)
unpack_output(s, obuf_packed, ind) ==
    LET sh == oshape_folded(s, ind) IN
    Tensor(sh,
           [b \in 1..sh[1] |->
               IF obuf_packed[b] = Unknown THEN Unknown
               ELSE [g \in 1..sh[2] |-> UnpackVector(obuf_packed[b][g], sh[3])]])

unfold_output(s, obuf_folded, ind) == Flatten(obuf_folded, oshape_normal(s, ind))

\* ------------------------------------------------------------- copy in, out
\* A host write that changes an input buffer while the transfer reading it
\* is still running races with that transfer: what output engine o then
\* writes is not determined, and the rows of its buffer are no longer
\* tracked.  `before` is memory ahead of the host writes, `after` behind them.
Raced(before, after, s, h) ==
    LET racing(o) == /\ o \in DOMAIN h /\ h[o] = StatusBusy
                     /\ o <= Len(s.ibuf_packed_device)
                     /\ after[s.ibuf_packed_device[o].id] # before[s.ibuf_packed_device[o].id]
    IN [id \in DOMAIN after |->
          IF \E o \in 1..Len(s.obuf_packed_device) :
                s.obuf_packed_device[o].id = id /\ racing(o)
          THEN [b \in 1..Len(after[id]) |-> Unknown]
          ELSE after[id]]

\* np.copyto(dst, src) broadcasts src to the shape of dst: every dimension
\* of src equals that of dst or is 1
Broadcastable(src, dst) ==
    /\ Len(src) = Len(dst)
    /\ \A k \in 1..Len(dst) : src[k] = dst[k] \/ src[k] = 1
BroadcastTo(t, shape) ==
    LET at(k, j) == IF t.shape[k] = 1 THEN 1 ELSE j IN
    [b \in 1..shape[1] |->
        [g \in 1..shape[2] |->
            [l \in 1..shape[3] |-> t.data[at(1, b)][at(2, g)][at(3, l)]]]]

\* copy_input_data_to_device(data, ind): the whole device buffer is written
copy_input_data_to_device(s, m, data, ind) ==
    IF ind > Len(s.ibuf_packed_device) THEN [err |-> "IndexError", mem |-> m]
    ELSE LET buf == s.ibuf_packed_device[ind] IN
         IF ~Broadcastable(data.shape, buf.shape) THEN [err |-> "ValueError", mem |-> m]
         ELSE [err |-> "none", mem |-> [m EXCEPT ![buf.id] = BroadcastTo(data, buf.shape)]]

\* copy_output_data_from_device(self.obuf_packed[ind], ind): the whole
\* device buffer is copied to the host buffer
copy_output_data_from_device(s, m, h, ind) ==
    [h EXCEPT ![ind] = m[s.obuf_packed_device[ind].id]]

\* ------------------------------------------------------------------- execute
RECURSIVE ExecuteInputs(_, _, _, _)
\* lines 405-408, for the inputs i.. : fold, pack, copy to the device
ExecuteInputs(s, m, input_npy, i) ==
    IF i > num_inputs(s) THEN [err |-> "none", mem |-> m, ev |-> <<>>]
    ELSE LET f == fold_input(s, input_npy[i], i) IN
         IF f.err # "none" THEN [err |-> f.err, mem |-> m, ev |-> <<>>]
         ELSE LET ibuf_packed == pack_input(s, f.val, i)
                  c == copy_input_data_to_device(s, m, ibuf_packed, i)
                  done == <<Ev("fold", "host", i, 0, 0), Ev("pack", "host", i, 0, 0)>>
              IN IF c.err # "none" THEN [err |-> c.err, mem |-> m, ev |-> done]
                 ELSE LET rest == ExecuteInputs(s, c.mem, input_npy, i + 1)
                          id == s.ibuf_packed_device[i].id
                      IN [err |-> rest.err, mem |-> rest.mem,
                          ev |-> done \o <<Ev("copy_in", "ibuf", i, id, 0)>> \o rest.ev]

\* if not type(input_npy) is list: input_npy = [input_npy].  An argument
\* is [is_list, val]: val is the list given, or holds the one array given.
AsList(input_npy) == input_npy.val

\* (mutant) the launch precondition is tested ahead of the input stages
execute_checking_first(s, m, h, input_npy) ==
    LET xs == AsList(input_npy)
        r == execute_on_buffers(s, h, FALSE, NoneBatch)
    IN
    IF ArityMismatch(s, xs)
    THEN [self |-> s, mem |-> m, err |-> "AssertionError", ev |-> <<>>, idx |-> 0]
    ELSE IF r.err \notin {"running", "ok"}
    THEN [self |-> s, mem |-> m, err |-> r.err, ev |-> r.ev, idx |-> 0]
    ELSE LET ins == ExecuteInputs(s, m, xs, 1) IN
         IF ins.err # "none"
         THEN [self |-> s, mem |-> ins.mem, err |-> ins.err, ev |-> ins.ev, idx |-> 0]
         ELSE [self |-> r.self, mem |-> DmaTransfer(ins.mem, s, r.ev),
               err |-> r.err, ev |-> ins.ev \o r.ev, idx |-> r.idx]

\* execute(input_npy) up to the point where it raises or starts to block in
\* execute_on_buffers()
execute(s, m, h, input_npy) ==
    LET xs == AsList(input_npy) IN
    IF ArityMismatch(s, xs)
    THEN [self |-> s, mem |-> m, err |-> "AssertionError", ev |-> <<>>, idx |-> 0]
    ELSE LET ins == ExecuteInputs(s, m, xs, 1) IN
         IF ins.err # "none"
         THEN [self |-> s, mem |-> ins.mem, err |-> ins.err, ev |-> ins.ev, idx |-> 0]
         ELSE LET r == execute_on_buffers(s, h, FALSE, NoneBatch)
              IN [self |-> r.self, mem |-> DmaTransfer(ins.mem, s, r.ev),
                  err |-> r.err, ev |-> ins.ev \o r.ev, idx |-> r.idx]

RECURSIVE ExecuteOutputs(_, _, _, _)
\* lines 411-415, for the outputs o.. : copy from the device, unpack, unfold
ExecuteOutputs(s, m, h, o) ==
    IF o > num_outputs(s) THEN [host |-> h, outputs |-> <<>>, ev |-> <<>>]
    ELSE LET h1 == copy_output_data_from_device(s, m, h, o)
             obuf_folded == unpack_output(s, h1[o], o)
             obuf_normal == unfold_output(s, obuf_folded, o)
             rest == ExecuteOutputs(s, m, h1, o + 1)
             id == s.obuf_packed_device[o].id
         IN [host |-> rest.host, outputs |-> <<obuf_normal>> \o rest.outputs,
             ev |-> <<Ev("copy_out", "obuf", o, id, 0), Ev("unpack", "host", o, 0, 0),
                      Ev("unfold", "host", o, 0, 0)>> \o rest.ev]

\* ------------------------------------------------------------------ calls
Call(name, asynch, bs) == [name |-> name, asynch |-> asynch, batch_size |-> bs]

\* where control is once a call has produced `err`: an exception in
\* __init__ leaves no object behind
PcAfter(name, err) ==
    IF err = "running" THEN "waiting"
    ELSE IF name = "__init__" /\ err # "ok" THEN "failed"
    ELSE IF name = "execute" /\ err = "ok" THEN "outputs"
    ELSE "ready"

\* (mutant) the count declared by the descriptor is never compared
CountMismatchIgnored(s) == FALSE

\* lines 150-156: "number_of_external_weights" in io_shape_dict and
\* len(self.external_weights) differs from it
CountMismatch(s) ==
    /\ DeclaresCount(s.io_shape_dict)
    /\ Len(s.external_weights) \notin s.io_shape_dict.number_of_external_weights

\* load_external_weights: one binding per .npy file naming an engine, then
\* the comparison with the declared count; when runtime_weight_dir is no
\* directory it returns at once (line 124), before that comparison
load_external_weights(s, alloc) ==
    IF ~fs.isdir
    THEN [self |-> [s EXCEPT !.external_weights = <<>>], alloc |-> alloc, err |-> "none"]
    ELSE LET a == AllocateAll(alloc, [w \in 1..fs.npy |-> <<w>>], 1, FALSE)
             s1 == [s EXCEPT !.external_weights = a.bufs]
         IN [self |-> s1, alloc |-> a.alloc,
             err |-> IF CountMismatch(s1) THEN "AssertionError" ELSE "none"]

\* ------------------------------------------------------ load_runtime_weights
\* the words of the k-th .dat file whose partition is in ip_dict
DatWords(k) == [j \in 1..(k + 1) |-> 16 * k + j]

\* the register store of a partition read back after `words` were written to
\* it: the same words, or (a failed write, a broken readback path) the words
\* with the one at index rb.word changed, for the file rb.file
Corrupt(words, j) == [words EXCEPT ![j] = (@ + 1) % 256]
Readbacks(n) ==
    {[file |-> 0, word |-> 0]} \cup
    UNION {{[file |-> k, word |-> j] : j \in 1..Len(DatWords(k))} : k \in 1..n}
ReadBack(k, words, rb) == IF rb.file = k THEN Corrupt(words, rb.word) ELSE words

\* (mutant) only the first word is compared
VerifyFailsFirstWord(layer_w, new_w) == layer_w[1] # new_w[1]

\* assert (layer_w == new_w).all()
VerifyFails(layer_w, new_w) == layer_w # new_w

RECURSIVE RuntimeWrites(_, _, _)
\* lines 189-208, for the files k.. : write_mm(0, layer_w), then with verify
\* mmio.array[:len(layer_w)] is read and compared
RuntimeWrites(k, verify, rb) ==
    IF k > fs.dat THEN Out("none", <<>>)
    ELSE LET layer_w == DatWords(k)
             wr == Ev("write_mm", "sdp", k, 0, layer_w)
             new_w == ReadBack(k, layer_w, rb)
             rd == Ev("array", "sdp", k, Len(layer_w), new_w)
         IN IF verify /\ VerifyFails(layer_w, new_w)
            THEN Out("AssertionError", <<wr, rd>>)
            ELSE LET rest == RuntimeWrites(k + 1, verify, rb)
                 IN Out(rest.err, (IF verify THEN <<wr, rd>> ELSE <<wr>>) \o rest.ev)

\* (mutant) the test of flush_accel inverted
FlushRequestedInverted(flush_accel) == flush_accel = FALSE

\* if flush_accel:
FlushRequested(flush_accel) == flush_accel = TRUE

\* load_runtime_weights(flush_accel, verify), up to the point where it
\* returns, raises or starts to block in the flush
load_runtime_weights(s, h, flush_accel, verify, rb) ==
    IF ~fs.isdir THEN [self |-> s, err |-> "ok", ev |-> <<>>, idx |-> 0]
    ELSE LET w == RuntimeWrites(1, verify, rb) IN
         IF w.err # "none" THEN [self |-> s, err |-> w.err, ev |-> w.ev, idx |-> 0]
         ELSE IF FlushRequested(flush_accel)
              THEN LET r == execute_on_buffers(s, h, FALSE, NoneBatch)
                   IN [r EXCEPT !.ev = w.ev \o r.ev]
         ELSE [self |-> s, err |-> "ok", ev |-> w.ev, idx |-> 0]

CallWeights(flush_accel, verify) ==
    [name |-> "load_runtime_weights", asynch |-> FALSE, batch_size |-> NoneBatch,
     flush_accel |-> flush_accel, verify |-> verify]

\* FINNExampleOverlay(bitfile, platform, io_shape_dict, batch_size=value)
Construct(value) ==
    /\ pc = "new"
    /\ call' = Call("__init__", FALSE, value)
    /\ UNCHANGED <<fs, accel>>
    /\ ret' = NoValue
    /\ \E b \in {batch_size_setter(self, allocated, value)} :
       IF b.err # "none"
       THEN /\ self' = b.self
            /\ allocated' = b.alloc
            /\ result' = b.err
            /\ pc' = "failed"
            /\ mem' = MemOf(mem, b.self, {})
            /\ host' = HostOf(b.self)
            /\ UNCHANGED <<hw, trace, waitIdx>>
       ELSE LET io == self.io_shape_dict
                s2 == [b.self EXCEPT
                         !.idma = io.input_dma_name,
                         !.odma = io.output_dma_name,
                         !.odma_handle =
                            IF self.platform = "alveo"
                            THEN [k \in 1..io.output_dma_name |-> None]
                            ELSE <<>>]
                x == load_external_weights(s2, b.alloc)
            IN  /\ allocated' = x.alloc
                /\ host' = HostOf(x.self)
                /\ IF x.err # "none"
                   THEN \* load_external_weights raised
                        /\ self' = x.self
                        /\ result' = x.err
                        /\ pc' = "failed"
                        /\ mem' = MemOf(mem, x.self, {})
                        /\ UNCHANGED <<hw, trace, waitIdx>>
                   ELSE \* self.load_runtime_weights()
                        \E rb \in Readbacks(fs.dat) :
                        \E r \in {load_runtime_weights(x.self, hw, TRUE, TRUE, rb)} :
                        /\ self' = r.self
                        /\ hw' = HwAfter(hw, r.ev)
                        /\ mem' = DmaTransfer(MemOf(mem, x.self, {}), x.self, r.ev)
                        /\ trace' = r.ev
                        /\ result' = r.err
                        /\ waitIdx' = r.idx
                        /\ pc' = PcAfter("__init__", r.err)

\* self.execute_on_buffers(asynch, batch_size)
ExecuteOnBuffers(asynch, bsArg) ==
    /\ pc = "ready"
    /\ \E r \in {execute_on_buffers(self, hw, asynch, bsArg)} :
       /\ self' = r.self
       /\ hw' = HwAfter(hw, r.ev)
       /\ trace' = r.ev
       /\ result' = r.err
       /\ waitIdx' = r.idx
       /\ pc' = PcAfter("execute_on_buffers", r.err)
       /\ mem' = DmaTransfer(mem, self, r.ev)
    /\ call' = Call("execute_on_buffers", asynch, bsArg)
    /\ ret' = NoValue
    /\ UNCHANGED <<fs, allocated, host, accel>>

\* self.load_runtime_weights(flush_accel, verify)
LoadRuntimeWeights(flush_accel, verify) ==
    /\ pc = "ready"
    /\ \E rb \in Readbacks(fs.dat) :
       \E r \in {load_runtime_weights(self, hw, flush_accel, verify, rb)} :
       /\ self' = r.self
       /\ hw' = HwAfter(hw, r.ev)
       /\ trace' = r.ev
       /\ result' = r.err
       /\ waitIdx' = r.idx
       /\ pc' = PcAfter("load_runtime_weights", r.err)
       /\ mem' = DmaTransfer(mem, self, r.ev)
    /\ call' = CallWeights(flush_accel, verify)
    /\ ret' = NoValue
    /\ UNCHANGED <<fs, allocated, host, accel>>

CallExecute(input_npy) ==
    [name |-> "execute", asynch |-> FALSE, batch_size |-> NoneBatch,
     input_npy |-> input_npy]

\* self.execute(input_npy), to the point where it raises or blocks in the
\* wait of execute_on_buffers()
Execute(input_npy) ==
    /\ pc = "ready"
    /\ \E r \in {execute(self, mem, hw, input_npy)} :
       /\ self' = r.self
       /\ mem' = Raced(mem, r.mem, self, hw)
       /\ hw' = HwAfter(hw, r.ev)
       /\ trace' = r.ev
       /\ result' = r.err
       /\ waitIdx' = r.idx
       /\ pc' = PcAfter("execute", r.err)
    /\ call' = CallExecute(input_npy)
    /\ ret' = NoValue
    /\ UNCHANGED <<fs, allocated, host, accel>>

\* self.execute(input_npy), from the return of execute_on_buffers() on
ExecuteReturn ==
    /\ pc = "outputs"
    /\ \E r \in {ExecuteOutputs(self, mem, host, 1)} :
       /\ host' = r.host
       /\ ret' = IF num_outputs(self) = 1 THEN r.outputs[1] ELSE r.outputs
       /\ trace' = trace \o r.ev
    /\ result' = "ok"
    /\ pc' = "ready"
    /\ UNCHANGED <<self, fs, allocated, hw, call, waitIdx, mem, accel>>

CallCopy(data, ind) ==
    [name |-> "copy_input_data_to_device", asynch |-> FALSE, batch_size |-> NoneBatch,
     data |-> data, ind |-> ind]

\* self.copy_input_data_to_device(data, ind)
CopyInputDataToDevice(data, ind) ==
    /\ pc = "ready"
    /\ \E c \in {copy_input_data_to_device(self, mem, data, ind)} :
       /\ mem' = Raced(mem, c.mem, self, hw)
       /\ result' = IF c.err = "none" THEN "ok" ELSE c.err
    /\ trace' = <<>>
    /\ call' = CallCopy(data, ind)
    /\ ret' = NoValue
    /\ UNCHANGED <<self, fs, allocated, hw, pc, waitIdx, host, accel>>

\* self.wait_until_finished()
WaitUntilFinished ==
    /\ pc = "ready"
    /\ \E w \in {WaitEnter(self)} :
       /\ result' = w.err
       /\ waitIdx' = w.idx
       /\ pc' = PcAfter("wait_until_finished", w.err)
    /\ trace' = <<>>
    /\ call' = Call("wait_until_finished", FALSE, NoneBatch)
    /\ ret' = NoValue
    /\ UNCHANGED <<self, fs, allocated, hw, mem, host, accel>>

\* (mutant) the poll tests the idle bit
CompletedWhenIdle(h, o) == BitSet(h[o], AP_IDLE)

\* output engine o has finished: the poll of its status register sees the
\* done bit (zynq-iodma), odma_handle[o].wait() returns (alveo)
Completed(h, o) == BitSet(h[o], AP_DONE)

\* (mutant) every handle is dropped once the first one has been waited for
ClearHandleAll(s, o) ==
    [s EXCEPT !.odma_handle = [k \in 1..Len(s.odma_handle) |-> None]]

\* self.odma_handle[o] = None
ClearHandle(s, o) == [s EXCEPT !.odma_handle[o] = None]

\* one iteration of the loop of wait_until_finished.  A poll that finds the
\* done bit clear changes nothing and is not recorded.
WaitStep ==
    /\ pc = "waiting"
    /\ Completed(hw, waitIdx)
    /\ LET s1 == IF self.platform = "alveo" THEN ClearHandle(self, waitIdx) ELSE self
           e == IF self.platform = "alveo"
                THEN HandleWait(waitIdx)
                ELSE RegRead("odma", waitIdx, REG_CTRL, hw[waitIdx])
           n == WaitNext(s1, waitIdx + 1)
       IN /\ self' = s1
          /\ trace' = Append(trace, e)
          /\ result' = n.err
          /\ waitIdx' = n.idx
          /\ pc' = PcAfter(call.name, n.err)
    /\ UNCHANGED <<fs, allocated, hw, call, dataVars>>

\* self.batch_size = value
SetBatchSize(value) ==
    /\ pc = "ready"
    /\ \E b \in {batch_size_setter(self, allocated, value)} :
       /\ self' = b.self
       /\ allocated' = b.alloc
       /\ result' = IF b.err = "none" THEN "ok" ELSE b.err
       /\ mem' = MemOf(mem, b.self, BufIds(self.external_weights))
       /\ host' = HostOf(b.self)
    /\ trace' = <<>>
    /\ call' = Call("batch_size", FALSE, value)
    /\ ret' = NoValue
    /\ UNCHANGED <<fs, hw, pc, waitIdx, accel>>

\* self.platform = p : platform is a plain attribute; the only way the
\* "Unrecognized platform" branches are reached on a constructed driver
SetPlatform(p) ==
    /\ pc = "ready"
    /\ self.platform # p
    /\ self' = [self EXCEPT !.platform = p]
    /\ result' = "ok"
    /\ trace' = <<>>
    /\ call' = Call("platform", FALSE, NoneBatch)
    /\ ret' = NoValue
    /\ UNCHANGED <<fs, allocated, hw, pc, waitIdx, mem, host, accel>>

\* the accelerator: a running output engine completes its transfer
HwFinish(o) ==
    /\ o \in DOMAIN hw
    /\ hw[o] = StatusBusy
    /\ hw' = [hw EXCEPT ![o] = StatusDone]
    /\ UNCHANGED <<self, fs, allocated, pc, call, result, trace, waitIdx, dataVars>>

\* ------------------------------------------------------------ specification
NewObject(platform, io) ==
    [platform |-> platform, io_shape_dict |-> io, batch_size |-> NoneBatch,
     ibuf_packed_device |-> <<>>, obuf_packed_device |-> <<>>, obuf_packed |-> <<>>,
     idma |-> 0, odma |-> 0, odma_handle |-> <<>>, external_weights |-> <<>>]

\* runtime_weight_dir: absent, or a directory holding npy files <engine>.npy
\* that name an engine and dat files <sdp>_<layer>_*.dat whose partition
\* exists
WeightDir(isdir, npy, dat) == [isdir |-> isdir, npy |-> npy, dat |-> dat]
WeightDirs ==
    {WeightDir(FALSE, 0, 0)} \cup {WeightDir(TRUE, n, 0) : n \in 0..MaxExtWeights}

Init ==
    /\ \E p \in Platforms, io \in Descriptors :
          /\ self = NewObject(p, io)
          /\ hw = [o \in 1..io.output_dma_name |-> StatusIdle]
    /\ fs \in WeightDirs
    /\ allocated = {}
    /\ pc = "new"
    /\ call = Call("none", FALSE, NoneBatch)
    /\ result = "ok"
    /\ trace = <<>>
    /\ waitIdx = 0
    /\ mem = <<>>
    /\ host = <<>>
    /\ ret = NoValue
    /\ accel = "opaque"

Next ==
    \/ \E value \in BatchValues : Construct(value)
    \/ \E asynch \in BOOLEAN, bsArg \in BatchArgs : ExecuteOnBuffers(asynch, bsArg)
    \/ WaitUntilFinished
    \/ WaitStep
    \/ \E value \in BatchValues : SetBatchSize(value)
    \/ \E p \in UnknownPlatforms : SetPlatform(p)
    \/ \E o \in 1..MaxOutputs : HwFinish(o)

Spec == Init /\ [][Next]_vars

\* ---------------------------------------- specification of the weight loaders
\* descriptors with and without the optional number_of_external_weights key,
\* weight directories with runtime-weight files
WeightDescriptors == {Descriptor(1, no, 1, no) : no \in 1..MaxOutputs}
LoadDescriptors ==
    WeightDescriptors \cup
    {WithCount(io, n) : io \in WeightDescriptors, n \in 0..MaxExtWeights}
LoadDirs ==
    {WeightDir(FALSE, 0, 0)} \cup
    {WeightDir(TRUE, n, d) : n \in 0..MaxExtWeights, d \in 0..MaxRtWeights}

InitLoad ==
    /\ \E p \in Platforms, io \in LoadDescriptors :
          /\ self = NewObject(p, io)
          /\ hw = [o \in 1..io.output_dma_name |-> StatusIdle]
    /\ fs \in LoadDirs
    /\ allocated = {}
    /\ pc = "new"
    /\ call = Call("none", FALSE, NoneBatch)
    /\ result = "ok"
    /\ trace = <<>>
    /\ waitIdx = 0
    /\ mem = <<>>
    /\ host = <<>>
    /\ ret = NoValue
    /\ accel = "opaque"

NextLoad ==
    \/ \E value \in {1, MaxBatch} : Construct(value)
    \/ \E flush_accel \in BOOLEAN, verify \in BOOLEAN :
          LoadRuntimeWeights(flush_accel, verify)
    \/ \E asynch \in BOOLEAN : ExecuteOnBuffers(asynch, NoneBatch)
    \/ WaitUntilFinished
    \/ WaitStep
    \/ \E o \in 1..MaxOutputs : HwFinish(o)

SpecLoad == InitLoad /\ [][NextLoad]_vars

\* ------------------------------------------- specification of the data path
\* descriptors whose outputs have the shapes of the inputs, as an identity
\* accelerator has them, every engine being named
Loopback(n) ==
    [Descriptor(n, n, n, n) EXCEPT !.oshape_normal = Flat(n, 4),
                                   !.oshape_folded = Shapes(n, 4),
                                   !.oshape_packed = Shapes(n, 2)]
RunDescriptors == {Loopback(n) : n \in 1..MaxInputs}

\* the arrays handed to the driver: a few arrays of every shape, elements
\* of 4 bits that differ along every dimension
Seeds == {0, 7}
TensorOf(n, w, seed) ==
    Tensor(<<n, w>>, [b \in 1..n |-> [j \in 1..w |-> (seed + 5 * b + j) % 16]])
Width(io, i) == IF i <= io.num_inputs THEN io.ishape_normal[i][2] ELSE 4
\* a list of a arrays of batch nb; with off = "batch" or "width" the last of
\* them has another batch (that of the build, or 2) or another width
InputList(io, a, nb, seed, off) ==
    [i \in 1..a |->
        TensorOf(IF i = a /\ off = "batch" THEN (IF nb = 1 THEN 2 ELSE 1) ELSE nb,
                 IF i = a /\ off = "width" THEN Width(io, i) + 1 ELSE Width(io, i),
                 seed + i)]
Inputs(io) ==
    {[is_list |-> TRUE, val |-> InputList(io, a, nb, seed, "none")] :
        a \in 1..MaxInputs, nb \in BatchValues, seed \in Seeds}
    \cup {[is_list |-> TRUE, val |-> InputList(io, a, nb, 0, off)] :
        a \in 1..MaxInputs, nb \in BatchValues, off \in {"batch", "width"}}
    \cup {[is_list |-> FALSE, val |-> <<TensorOf(nb, Width(io, 1), 0)>>] :
        nb \in BatchValues}
\* packed arrays for input ind: of the configured batch, or of batch 1
PackedInputs(s, ind) ==
    {pack_input(s, Reshape(TensorOf(nb, 4 * ind, seed), <<nb, ind, 4>>), ind) :
        nb \in {1, s.batch_size}, seed \in Seeds}

InitRun ==
    /\ \E p \in Platforms, io \in RunDescriptors :
          /\ self = NewObject(p, io)
          /\ hw = [o \in 1..io.output_dma_name |-> StatusIdle]
    /\ fs = WeightDir(FALSE, 0, 0)
    /\ allocated = {}
    /\ pc = "new"
    /\ call = Call("none", FALSE, NoneBatch)
    /\ result = "ok"
    /\ trace = <<>>
    /\ waitIdx = 0
    /\ mem = <<>>
    /\ host = <<>>
    /\ ret = NoValue
    /\ accel \in {"identity", "opaque"}

NextRun ==
    \/ \E value \in BatchValues : Construct(value)
    \/ \E input_npy \in Inputs(self.io_shape_dict) : Execute(input_npy)
    \/ ExecuteReturn
    \/ WaitStep
    \/ \E value \in BatchValues : SetBatchSize(value)
    \/ \E o \in 1..MaxInputs : HwFinish(o)

SpecRun == InitRun /\ [][NextRun]_vars

\* ------------------------------------ specification of partial-batch launches
\* one input and one output; the caller fills the input buffer and launches
\* on the first bsArg elements of the batch
InitPartial ==
    /\ \E p \in Platforms :
          /\ self = NewObject(p, Loopback(1))
          /\ hw = <<StatusIdle>>
    /\ fs = WeightDir(FALSE, 0, 0)
    /\ allocated = {}
    /\ pc = "new"
    /\ call = Call("none", FALSE, NoneBatch)
    /\ result = "ok"
    /\ trace = <<>>
    /\ waitIdx = 0
    /\ mem = <<>>
    /\ host = <<>>
    /\ ret = NoValue
    /\ accel \in {"identity", "opaque"}

NextPartial ==
    \/ \E value \in BatchValues : Construct(value)
    \/ \E ind \in 1..MaxInputs : \E data \in PackedInputs(self, ind) :
          CopyInputDataToDevice(data, ind)
    \/ \E bsArg \in BatchArgs : ExecuteOnBuffers(FALSE, bsArg)
    \/ WaitStep
    \/ HwFinish(1)

SpecPartial == InitPartial /\ [][NextPartial]_vars

\* ------------------------------------------- specification of the busy-wait
\* launches and waits only.  wait_until_finished polls in a loop without
\* sleeping, so the thread goes on taking the iteration that is enabled; an
\* output engine that was started completes its transfer (the accelerator
\* under which the wait is claimed to return).
InitWait ==
    /\ \E p \in Platforms, io \in Descriptors :
          /\ self = NewObject(p, io)
          /\ hw = [o \in 1..io.output_dma_name |-> StatusIdle]
    /\ fs = WeightDir(FALSE, 0, 0)
    /\ allocated = {}
    /\ pc = "new"
    /\ call = Call("none", FALSE, NoneBatch)
    /\ result = "ok"
    /\ trace = <<>>
    /\ waitIdx = 0
    /\ mem = <<>>
    /\ host = <<>>
    /\ ret = NoValue
    /\ accel = "opaque"

NextWait ==
    \/ \E value \in {1, MaxBatch} : Construct(value)
    \/ \E asynch \in BOOLEAN : ExecuteOnBuffers(asynch, NoneBatch)
    \/ WaitUntilFinished
    \/ WaitStep
    \/ \E o \in 1..MaxOutputs : HwFinish(o)

SpecWait ==
    /\ InitWait /\ [][NextWait]_vars
    /\ WF_vars(WaitStep)
    /\ \A o \in 1..MaxOutputs : WF_vars(HwFinish(o))

\* -------------------------------------- specification of overlapping runs
\* asynchronous launches, waits and runs of execute on loopback descriptors;
\* execute is handed arrays of the configured shapes
GoodInputs(s) ==
    {[is_list |-> TRUE,
      val |-> InputList(s.io_shape_dict, num_inputs(s), s.batch_size, seed, "none")] :
        seed \in Seeds}

InitOverlap ==
    /\ \E p \in KnownPlatforms, io \in RunDescriptors :
          /\ self = NewObject(p, io)
          /\ hw = [o \in 1..io.output_dma_name |-> StatusIdle]
    /\ fs = WeightDir(FALSE, 0, 0)
    /\ allocated = {}
    /\ pc = "new"
    /\ call = Call("none", FALSE, NoneBatch)
    /\ result = "ok"
    /\ trace = <<>>
    /\ waitIdx = 0
    /\ mem = <<>>
    /\ host = <<>>
    /\ ret = NoValue
    /\ accel \in {"identity", "opaque"}

NextOverlap ==
    \/ \E value \in {1, MaxBatch} : Construct(value)
    \/ ExecuteOnBuffers(TRUE, NoneBatch)
    \/ \E input_npy \in GoodInputs(self) : Execute(input_npy)
    \/ ExecuteReturn
    \/ WaitUntilFinished
    \/ WaitStep
    \/ \E o \in 1..MaxInputs : HwFinish(o)

SpecOverlap == InitOverlap /\ [][NextOverlap]_vars

\* =================================================================== claims
Raised(r) == r \notin {"ok", "running"}
\* the step is a call of execute_on_buffers (with the arguments call' names)
AnyExecuteOnBuffers ==
    /\ pc = "ready"
    /\ call'.name = "execute_on_buffers"
    /\ call'.asynch \in BOOLEAN /\ call'.batch_size \in BatchArgs
    /\ ExecuteOnBuffers(call'.asynch, call'.batch_size)
Events(tr, op) == {k \in 1..Len(tr) : tr[k].op = op}
SomePending(s) == \E k \in 1..Len(s.odma_handle) : s.odma_handle[k] = Pending
NonePending(s) == \A k \in 1..Len(s.odma_handle) : s.odma_handle[k] = None
OutputEngines(s) == 1..(IF s.odma < num_outputs(s) THEN s.odma ELSE num_outputs(s))

\* C1: on alveo, execute_on_buffers called while some output channel holds a
\* pending handle raises, starts no input, external-weight or output engine
\* and leaves every stored handle (and the engines) as they were.
C1_OverlapLaunchRejected ==
    [][(self.platform = "alveo" /\ SomePending(self) /\ AnyExecuteOnBuffers)
        => /\ result' = "AssertionError"
           /\ pc' = "ready"
           /\ trace' = <<>>
           /\ self'.odma_handle = self.odma_handle
           /\ hw' = hw]_vars

\* an overlapping launch (with the default batch size) has just been refused
C1_Witness ==
    /\ pc = "ready" /\ self.platform = "alveo"
    /\ call.name = "execute_on_buffers" /\ call.batch_size = NoneBatch
    /\ result = "AssertionError"
    /\ SomePending(self)
    /\ num_outputs(self) = 2

\* C2: on zynq-iodma, execute_on_buffers called while the status register of
\* any output engine has the idle bit clear raises without one register
\* write, whichever of the output engines it is.
C2_NotIdleRejected ==
    [][(/\ self.platform = "zynq-iodma"
        /\ \E o \in OutputEngines(self) : ~BitSet(hw[o], AP_IDLE)
        /\ AnyExecuteOnBuffers)
        => /\ result' = "AssertionError"
           /\ pc' = "ready"
           /\ Events(trace', "write") = {}
           /\ Events(trace', "start") = {}
           /\ hw' = hw]_vars

\* the launch was refused because the second output engine alone was running
C2_Witness ==
    /\ pc = "ready" /\ self.platform = "zynq-iodma"
    /\ call.name = "execute_on_buffers" /\ call.batch_size = NoneBatch
    /\ result = "AssertionError"
    /\ num_outputs(self) = 2 /\ self.odma = 2
    /\ BitSet(hw[1], AP_IDLE) /\ ~BitSet(hw[2], AP_IDLE)
    /\ Len(trace) = 2

\* C3: on alveo, wait_until_finished called with no handle pending raises,
\* does not block, and leaves all handles absent.
C3_WaitWithoutHandleRaises ==
    [][(pc = "ready" /\ self.platform = "alveo" /\ NonePending(self) /\ WaitUntilFinished)
        => /\ result' = "AssertionError"
           /\ pc' = "ready"
           /\ trace' = <<>>
           /\ NonePending(self')]_vars

\* a second wait after a launch that was waited for
C3_Witness ==
    /\ pc = "ready" /\ self.platform = "alveo"
    /\ call.name = "wait_until_finished"
    /\ result = "AssertionError"
    /\ NonePending(self)
    /\ \A o \in DOMAIN hw : hw[o] = StatusDone

\* C4: a handle is always absent or pending; it becomes pending only by a
\* launch that starts its output engine, and never while it is already
\* pending; it becomes absent only by the iteration of wait_until_finished
\* that blocked on it, which is also the only place a handle is waited on.
\* A driver constructed for zynq-iodma stores no handle at all.
HandleOf(s, k) == IF k \in 1..Len(s.odma_handle) THEN s.odma_handle[k] ELSE None
StartsOutput(tr, k) == \E j \in Events(tr, "start") : tr[j].dev = "odma" /\ tr[j].idx = k
C4_HandleLifecycle ==
    /\ [](\A k \in 1..Len(self.odma_handle) : self.odma_handle[k] \in {None, Pending})
    /\ [](self.platform = "zynq-iodma" => self.odma_handle = <<>>)
    /\ [][\A k \in 1..MaxOutputs + 1 :
            /\ (HandleOf(self, k) = None /\ HandleOf(self', k) = Pending)
                => /\ pc \in {"new", "ready"}
                   /\ call'.name \in {"__init__", "execute_on_buffers"}
                   /\ StartsOutput(trace', k)
                   /\ hw'[k] = StatusBusy
            /\ (pc = "ready" /\ HandleOf(self, k) = Pending /\ AnyExecuteOnBuffers)
                => (~StartsOutput(trace', k) /\ HandleOf(self', k) = Pending)
            /\ (HandleOf(self, k) = Pending /\ HandleOf(self', k) = None)
                => /\ pc = "waiting" /\ waitIdx = k
                   /\ Completed(hw, k)
                   /\ trace' = Append(trace, HandleWait(k))
            /\ (Len(trace') > Len(trace) /\ trace'[Len(trace')] = HandleWait(k))
                => (HandleOf(self, k) = Pending /\ HandleOf(self', k) = None)]_vars

\* in the middle of a wait: the first handle was waited on and cleared, the
\* second is still pending
C4_Witness ==
    /\ self.platform = "alveo" /\ pc = "waiting" /\ waitIdx = 2
    /\ self.odma_handle = <<None, Pending>>
    /\ trace[Len(trace)] = HandleWait(1)

\* the accesses by which a launch starts an engine, and its waits for one
IsLaunchEvent(e) == e.op = "start" \/ e.op = "write"
ObservedDone(tr, o) ==
    \E j \in Events(tr, "read") :
        /\ tr[j].dev = "odma" /\ tr[j].idx = o /\ BitSet(tr[j].b, AP_DONE)
        /\ \A i \in Events(tr, "write") : i < j
WaitedFor(tr) ==
    {j \in 1..Len(tr) :
        \/ tr[j].op = "wait"
        \/ tr[j].op = "read" /\ \E i \in Events(tr, "write") : i < j}
Returned(name) == pc = "ready" /\ call.name = name /\ result = "ok"

C6_DocstringBlocking ==
    /\ []((Returned("execute_on_buffers") /\ call.asynch)
            => \A o \in OutputEngines(self) : Completed(hw, o))
    /\ [][(AnyExecuteOnBuffers /\ ~call'.asynch) => pc' = "ready"]_vars

\* C7: execute_on_buffers with a batch size above the configured one raises
\* before any register access, engine start or handle store, on every
\* platform; a batch size not above it passes the check, and is the value
\* handed to every engine that the call programs or starts.
LaunchPermitted(s, h) ==
    \/ /\ s.platform = "alveo"
       /\ NonePending(s) /\ Len(s.odma_handle) >= num_outputs(s)
    \/ /\ s.platform = "zynq-iodma"
       /\ s.odma >= num_outputs(s)
       /\ \A o \in 1..num_outputs(s) : BitSet(h[o], AP_IDLE)
BatchHanded(tr) ==
    {tr[j].b : j \in {i \in 1..Len(tr) :
        tr[i].op = "start" \/ (tr[i].op = "write" /\ tr[i].a = REG_BATCH)}}
C7_BatchSizeBound ==
    [][AnyExecuteOnBuffers =>
            LET bsArg == call'.batch_size
                bs == IF bsArg = NoneBatch THEN self.batch_size ELSE bsArg IN
            /\ bs > self.batch_size
                => /\ result' = "AssertionError" /\ pc' = "ready"
                   /\ trace' = <<>> /\ self' = self /\ hw' = hw
            /\ bs <= self.batch_size
                => /\ BatchHanded(trace') \subseteq {bs}
                   /\ LaunchPermitted(self, hw) => BatchHanded(trace') = {bs}]_vars

\* a partial batch: 1 was handed to the engines of a driver configured for 2
C7_Witness ==
    /\ Returned("execute_on_buffers")
    /\ self.batch_size = 2 /\ call.batch_size = 1
    /\ BatchHanded(trace) = {1}

\* C8: constructing the driver for a platform other than "alveo" and
\* "zynq-iodma" raises in __init__: no driver object results, nothing is
\* allocated and the platform is not replaced by a default; on a driver
\* whose platform is not one of the two, execute_on_buffers and
\* wait_until_finished raise as well, without touching the hardware.
C8_UnrecognizedPlatformRejected ==
    /\ [][(pc = "new" /\ self.platform \notin KnownPlatforms /\ Construct(call'.batch_size))
            => /\ pc' = "failed" /\ Raised(result')
               /\ allocated' = {}
               /\ self'.platform = self.platform
               /\ self'.ibuf_packed_device = <<>> /\ self'.obuf_packed_device = <<>>]_vars
    /\ [][pc = "failed" => pc' = "failed"]_vars
    /\ [][(self.platform \notin KnownPlatforms /\ AnyExecuteOnBuffers)
            => /\ Raised(result') /\ pc' = "ready"
               /\ trace' = <<>> /\ hw' = hw /\ self' = self]_vars
    /\ [][(pc = "ready" /\ self.platform \notin KnownPlatforms /\ WaitUntilFinished)
            => /\ result' = "Exception" /\ pc' = "ready"
               /\ trace' = <<>> /\ hw' = hw /\ self' = self]_vars

\* __init__ has raised on an unrecognized platform
C8_Witness ==
    /\ pc = "failed" /\ call.name = "__init__"
    /\ self.platform \notin KnownPlatforms
    /\ result = "KeyError"

\* C9: on a driver of a known platform, whatever batch sizes were set
\* before, after batch_size = n the driver holds num_inputs device input
\* buffers, num_outputs device output buffers and num_outputs host shadow
\* buffers, each of the descriptor's packed shape with leading dimension n;
\* every shape query has leading dimension n; the buffers are distinct and
\* are the only ones alive besides the external weights.
Held(s) ==
    BufIds(s.ibuf_packed_device) \cup BufIds(s.obuf_packed_device)
        \cup BufIds(s.external_weights)
BuffersMatch(s, n) ==
    LET io == s.io_shape_dict IN
    /\ Len(s.ibuf_packed_device) = io.num_inputs
    /\ Len(s.obuf_packed_device) = io.num_outputs
    /\ Len(s.obuf_packed) = io.num_outputs
    /\ \A i \in 1..io.num_inputs :
          /\ s.ibuf_packed_device[i].shape = <<n>> \o Tail(io.ishape_packed[i])
          /\ ishape_normal(s, i)[1] = n /\ Tail(ishape_normal(s, i)) = Tail(io.ishape_normal[i])
          /\ ishape_folded(s, i)[1] = n /\ Tail(ishape_folded(s, i)) = Tail(io.ishape_folded[i])
          /\ ishape_packed(s, i)[1] = n /\ Tail(ishape_packed(s, i)) = Tail(io.ishape_packed[i])
    /\ \A o \in 1..io.num_outputs :
          /\ s.obuf_packed_device[o].shape = <<n>> \o Tail(io.oshape_packed[o])
          /\ s.obuf_packed[o] = <<n>> \o Tail(io.oshape_packed[o])
          /\ oshape_normal(s, o)[1] = n /\ Tail(oshape_normal(s, o)) = Tail(io.oshape_normal[o])
          /\ oshape_folded(s, o)[1] = n /\ Tail(oshape_folded(s, o)) = Tail(io.oshape_folded[o])
          /\ oshape_packed(s, o)[1] = n /\ Tail(oshape_packed(s, o)) = Tail(io.oshape_packed[o])
    /\ Cardinality(Held(s)) = io.num_inputs + io.num_outputs + Len(s.external_weights)
C9_BuffersFollowBatchSize ==
    /\ []((pc \in {"ready", "waiting"} /\ self.platform \in KnownPlatforms)
            => (BuffersMatch(self, self.batch_size) /\ allocated = Held(self)))
    /\ [][(/\ pc = "ready" /\ self.platform \in KnownPlatforms
            /\ call'.name = "batch_size" /\ SetBatchSize(call'.batch_size))
                => /\ result' = "ok"
                   /\ self'.batch_size = call'.batch_size
                   /\ BuffersMatch(self', call'.batch_size)
                   /\ allocated' = Held(self')]_vars

\* the batch size of a driver with two inputs and two outputs was changed
C9_Witness ==
    /\ pc = "ready" /\ call.name = "batch_size" /\ result = "ok"
    /\ self.batch_size = MaxBatch /\ self.batch_size # 1
    /\ num_inputs(self) = 2 /\ num_outputs(self) = 2
    /\ Len(self.external_weights) = 1
    /\ BuffersMatch(self, MaxBatch)

\* C10: in every state of a constructed driver the configured batch size is
\* at least 1, and so is every batch size execute_on_buffers has handed to
\* an engine.
C10_BatchSizeAtLeastOne ==
    pc \in {"ready", "waiting"}
        => /\ self.batch_size >= 1
           /\ \A b \in BatchHanded(trace) : b >= 1

\* ------------------------------------------------------------ weight loaders
\* the number of <engine>.npy files load_external_weights finds: none when
\* runtime_weight_dir is no directory
Discovered == IF fs.isdir THEN fs.npy ELSE 0
DeclaredCounts == self.io_shape_dict.number_of_external_weights
ConstructsWithCount ==
    /\ pc = "new" /\ self.platform \in KnownPlatforms
    /\ DeclaresCount(self.io_shape_dict)
    /\ Construct(call'.batch_size)

HwFinishes == \E o \in DOMAIN hw : HwFinish(o)
LoadsRuntimeWeights ==
    /\ fs.isdir
    /\ \/ /\ pc = "ready" /\ call'.name = "load_runtime_weights"
          /\ ~HwFinishes
       \/ /\ pc = "new"
          /\ self.platform \in KnownPlatforms
          /\ Construct(call'.batch_size)
          /\ ~CountMismatch(self')
\* the arguments of that call
LoadVerify == pc = "new" \/ call'.verify
LoadFlush == pc = "new" \/ call'.flush_accel
MmWrites(tr) == Events(tr, "write_mm")
MmReads(tr) == Events(tr, "array")
Mismatched(tr) == {j \in MmReads(tr) : tr[j].b # DatWords(tr[j].idx)}

\* C12: load_runtime_weights writes the words of each runtime-weight file
\* at offset 0 of its partition.  With verify it then reads back as many
\* words as it wrote, from the start of the register space: when every
\* readback returns what was written all files are written, and when a
\* readback differs, in a single word already, the call raises right after
\* that readback, with no further write.  Without verify it reads nothing
\* back and writes all files.
C12_ReadbackVerified ==
    [][LoadsRuntimeWeights
        => LET tr == trace' IN
           /\ \A j \in MmWrites(tr) : tr[j].a = 0 /\ tr[j].b = DatWords(tr[j].idx)
           /\ \A j \in MmWrites(tr), i \in MmWrites(tr) : tr[j].idx = tr[i].idx => i = j
           /\ LoadVerify =>
                /\ \A j \in MmWrites(tr) :
                     /\ j + 1 \in MmReads(tr)
                     /\ tr[j + 1].idx = tr[j].idx
                     /\ tr[j + 1].a = Len(tr[j].b)
                     /\ Len(tr[j + 1].b) = Len(tr[j].b)
                /\ \A j \in MmReads(tr) : j - 1 \in MmWrites(tr)
                /\ Mismatched(tr) = {}
                     => /\ Cardinality(MmWrites(tr)) = fs.dat
                        /\ (LoadFlush \/ (result' = "ok" /\ pc' = "ready"))
                /\ Mismatched(tr) # {}
                     => /\ result' = "AssertionError"
                        /\ pc' = (IF pc = "new" THEN "failed" ELSE "ready")
                        /\ Mismatched(tr) = {Len(tr)}
                        /\ self' = self \/ pc = "new"
                        /\ hw' = hw
           /\ ~LoadVerify =>
                /\ MmReads(tr) = {}
                /\ Cardinality(MmWrites(tr)) = fs.dat
                /\ (LoadFlush \/ (result' = "ok" /\ pc' = "ready"))]_vars

\* load_runtime_weights(verify=True) raised on a readback whose second word
\* alone differs from what was written
C12_Witness ==
    /\ pc = "ready" /\ call.name = "load_runtime_weights" /\ call.verify
    /\ result = "AssertionError"
    /\ Len(trace) = 2
    /\ trace[1].op = "write_mm" /\ trace[2].op = "array"
    /\ trace[2].b[1] = trace[1].b[1]
    /\ trace[2].b[2] # trace[1].b[2]

\* the launch of the flush finds its own preconditions met: the engines are
\* bound and idle, no handle is pending (at start-up the hardware is fresh)
FlushPermitted ==
    IF pc = "new" THEN self'.odma >= num_outputs(self) ELSE LaunchPermitted(self, hw)
LaunchesOf(tr, o) == {j \in 1..Len(tr) : IsStartOf(tr[j], o)}
\* one launch: every output engine is started once, after every access to
\* the weight registers
FlushLaunched(s, tr) ==
    /\ \A o \in 1..num_outputs(s) : Cardinality(LaunchesOf(tr, o)) = 1
    /\ \A j \in 1..Len(tr) :
         IsLaunchEvent(tr[j]) => \A i \in MmWrites(tr) \cup MmReads(tr) : i < j
NoLaunch(tr) == \A j \in 1..Len(tr) : ~IsLaunchEvent(tr[j])
\* the wait of that launch has been gone through
FlushAwaited(s, tr) ==
    /\ FlushLaunched(s, tr)
    /\ s.platform = "alveo" =>
         /\ NonePending(s)
         /\ \A o \in 1..num_outputs(s) : tr[Len(tr) - num_outputs(s) + o] = HandleWait(o)
    /\ s.platform = "zynq-iodma" =>
         \A o \in 1..num_outputs(s) : ObservedDone(tr, o)
ReturnedFromLoad ==
    /\ pc = "ready" /\ fs.isdir /\ result = "ok"
    /\ \/ call.name = "__init__"
       \/ call.name = "load_runtime_weights" /\ call.flush_accel

Executes == pc = "ready" /\ call'.name = "execute" /\ Execute(call'.input_npy)
StageEvents(tr) ==
    {j \in 1..Len(tr) : tr[j].op \in {"fold", "pack", "copy_in", "copy_out", "unpack", "unfold"}}

\* C14: execute called with a number of input arrays other than num_inputs
\* raises the arity assertion before anything is folded, packed or copied and
\* before any engine is accessed: device memory, host buffers, handles and
\* engines are as before.
C14_ArityChecked ==
    [][(Executes /\ Len(AsList(call'.input_npy)) # num_inputs(self))
        => /\ result' = "AssertionError" /\ pc' = "ready"
           /\ trace' = <<>>
           /\ mem' = mem /\ host' = host
           /\ self' = self /\ hw' = hw /\ allocated' = allocated]_vars

\* execute was refused for a list of two arrays on a driver with one input,
\* whose input buffer still holds the data of an earlier run
C14_Witness ==
    /\ pc = "ready" /\ call.name = "execute" /\ result = "AssertionError"
    /\ num_inputs(self) = 1 /\ Len(AsList(call.input_npy)) = 2
    /\ AsList(call.input_npy)[1].shape = ishape_normal(self, 1)
    /\ self.batch_size >= 1
    /\ mem[self.ibuf_packed_device[1].id][1] # Unknown
    /\ trace = <<>>

\* the descriptor gives every output the shapes of the input of its index
DescriptorsAgree(io) ==
    /\ io.num_outputs = io.num_inputs
    /\ io.oshape_normal = io.ishape_normal
    /\ io.oshape_folded = io.ishape_folded
    /\ io.oshape_packed = io.ishape_packed
\* the stages of one run of execute, in the order of lines 405-415: the
\* three input stages of every input, the launch and its wait, the three
\* output stages of every output
StagesInOrder(s, tr) ==
    LET n == num_inputs(s)
        no == num_outputs(s)
        last == Len(tr) - 3 * no
    IN /\ last >= 3 * n
       /\ \A i \in 1..n :
            /\ tr[3 * i - 2] = Ev("fold", "host", i, 0, 0)
            /\ tr[3 * i - 1] = Ev("pack", "host", i, 0, 0)
            /\ tr[3 * i] = Ev("copy_in", "ibuf", i, s.ibuf_packed_device[i].id, 0)
       /\ \A o \in 1..no :
            /\ tr[last + 3 * o - 2] = Ev("copy_out", "obuf", o, s.obuf_packed_device[o].id, 0)
            /\ tr[last + 3 * o - 1] = Ev("unpack", "host", o, 0, 0)
            /\ tr[last + 3 * o] = Ev("unfold", "host", o, 0, 0)
       /\ StageEvents(tr) = (1..(3 * n)) \cup ((last + 1)..Len(tr))
       /\ FlushAwaited(s, SubSeq(tr, 3 * n + 1, last))

\* C15: with an accelerator that hands every output buffer the bytes of the
\* input buffer of its index, and a descriptor whose output shapes are the
\* input shapes, execute returns the arrays it was given (the array itself
\* for one output), having gone through fold, pack, copy-to-device for every
\* input, then the launch and the wait, then copy-from-device, unpack,
\* unfold for every output.
C15_IdentityRoundTrip ==
    (Returned("execute") /\ accel = "identity" /\ DescriptorsAgree(self.io_shape_dict))
        => /\ ret = IF num_outputs(self) = 1
                    THEN AsList(call.input_npy)[1] ELSE AsList(call.input_npy)
           /\ StagesInOrder(self, trace)
           /\ \A o \in 1..num_outputs(self) :
                /\ mem[self.obuf_packed_device[o].id] = mem[self.ibuf_packed_device[o].id]
                /\ host[o] = mem[self.obuf_packed_device[o].id]

\* two arrays of batch 2 whose elements differ have come back through an
\* identity accelerator
C15_Witness ==
    /\ Returned("execute") /\ accel = "identity"
    /\ num_inputs(self) = 2 /\ self.batch_size = 2
    /\ ret = AsList(call.input_npy)
    /\ ret[1] # ret[2]
    /\ ret[1].data[1] # ret[1].data[2]
    /\ ret[1].data[1][1] # ret[1].data[1][2]
    /\ Len(trace) > 12

\* the position of the first array whose shape is not the normal shape of
\* its input at the current batch size; 0 when every array has that shape
RECURSIVE FirstMisshapen(_, _, _)
FirstMisshapen(s, xs, i) ==
    IF i > num_inputs(s) THEN 0
    ELSE IF xs[i].shape # <<s.batch_size>> \o Tail(s.io_shape_dict.ishape_normal[i]) THEN i
    ELSE FirstMisshapen(s, xs, i + 1)
FoldsOf(tr) == {j \in 1..Len(tr) : tr[j].op = "fold"}
CopiesIn(tr) == {tr[j].idx : j \in {k \in 1..Len(tr) : tr[k].op = "copy_in"}}

\* C20: fold_input checks against the batch size of the moment of the call.
\* execute, given as many arrays as there are inputs, folds every array
\* exactly when each has the descriptor's normal shape with the current
\* batch size as leading dimension; otherwise it raises the assertion at
\* the first array that has another shape (one shaped for another batch
\* size included), with no engine accessed, no handle pending and only the
\* inputs before that array copied to the device.
C20_FoldChecksCurrentBatch ==
    [][(Executes /\ Len(AsList(call'.input_npy)) = num_inputs(self))
        => LET bad == FirstMisshapen(self, AsList(call'.input_npy), 1) IN
           /\ bad = 0 =>
                /\ result' \in {"running", "ok"}
                /\ Cardinality(FoldsOf(trace')) = num_inputs(self)
                /\ \E j \in 1..Len(trace') : IsLaunchEvent(trace'[j])
           /\ bad # 0 =>
                /\ result' = "AssertionError" /\ pc' = "ready"
                /\ Cardinality(FoldsOf(trace')) = bad - 1
                /\ CopiesIn(trace') = 1..(bad - 1)
                /\ NoLaunch(trace') /\ Events(trace', "read") = {}
                /\ hw' = hw /\ self' = self /\ NonePending(self')
                /\ \A id \in DOMAIN mem :
                     id \notin {self.ibuf_packed_device[i].id : i \in 1..(bad - 1)}
                        => mem'[id] = mem[id]]_vars

\* after the batch size was raised to 2, execute refused an array list whose
\* second array is shaped for batch 1 although the first was copied
C20_Witness ==
    /\ pc = "ready" /\ call.name = "execute" /\ result = "AssertionError"
    /\ self.batch_size = 2 /\ num_inputs(self) = 2
    /\ Len(AsList(call.input_npy)) = 2
    /\ FirstMisshapen(self, AsList(call.input_npy), 1) = 2
    /\ AsList(call.input_npy)[2].shape = self.io_shape_dict.ishape_normal[2]
    /\ Len(trace) = 3 /\ NonePending(self)

\* ---------------------------------------------------------- partial batches
\* the step is a call execute_on_buffers(batch_size=k) with k below the
\* configured batch size
LaunchesPartial ==
    /\ pc = "ready" /\ call'.name = "execute_on_buffers" /\ ~HwFinishes
    /\ call'.batch_size # NoneBatch /\ call'.batch_size < self.batch_size
\* rows of the buffer at batch positions k and beyond (positions count from 0)
RowsFrom(buf, k) == [b \in (k + 1)..Len(buf) |-> buf[b]]

Launched(platform) ==
    /\ self.platform = platform /\ call.name = "execute_on_buffers"
    /\ pc \in {"ready", "waiting"} /\ result \in {"running", "ok"}
IsRegWrite(e) == e.op = "write"
BatchGiven == IF call.batch_size = NoneBatch THEN self.batch_size ELSE call.batch_size
\* the engines in the order claimed, with the buffer each is bound to
EnginesWeightsOutputsInputs(s) ==
    [w \in 1..Len(s.external_weights) |-> <<"iwdma", w, s.external_weights[w].id>>]
    \o [o \in 1..num_outputs(s) |-> <<"odma", o, s.obuf_packed_device[o].id>>]
    \o [i \in 1..num_inputs(s) |-> <<"idma", i, s.ibuf_packed_device[i].id>>]

\* C17: on zynq-iodma the register writes of a successful launch are, for
\* every external-weight engine, then every output engine, then every input
\* engine, each in index order: the buffer address to 0x10, the batch size
\* to 0x1C, 1 to 0x00.  So no input engine is started before the last output
\* engine, and no engine before its address and batch size were written.
C17_ZynqLaunchOrder ==
    Launched("zynq-iodma") =>
        LET wr == SelectSeq(trace, IsRegWrite)
            eng == EnginesWeightsOutputsInputs(self)
            Starts(dev) == {j \in 1..Len(wr) : wr[j].dev = dev /\ wr[j].a = REG_CTRL}
        IN /\ Len(wr) = 3 * Len(eng)
           /\ \A e \in 1..Len(eng) :
                /\ wr[3 * e - 2] = RegWrite(eng[e][1], eng[e][2], 16, eng[e][3])
                /\ wr[3 * e - 1] = RegWrite(eng[e][1], eng[e][2], 28, BatchGiven)
                /\ wr[3 * e] = RegWrite(eng[e][1], eng[e][2], 0, 1)
           /\ \A i \in Starts("idma"), o \in Starts("odma") : o < i
           /\ \A o \in Starts("odma"), w \in Starts("iwdma") : w < o
           /\ Cardinality(Starts("odma")) = num_outputs(self)
           /\ \A j \in 1..Len(wr) :
                wr[j].a = REG_CTRL =>
                    \E a, b \in 1..(j - 1) :
                        /\ a < b
                        /\ wr[a] = RegWrite(wr[j].dev, wr[j].idx, REG_ADDR, wr[a].b)
                        /\ wr[b] = RegWrite(wr[j].dev, wr[j].idx, REG_BATCH, BatchGiven)

\* a launch on zynq-iodma with an external weight, two outputs and two
\* inputs, on a batch smaller than the configured one
C17_Witness ==
    /\ Launched("zynq-iodma")
    /\ Len(self.external_weights) >= 1
    /\ num_outputs(self) = 2 /\ num_inputs(self) = 2
    /\ call.batch_size # NoneBatch /\ call.batch_size < self.batch_size
    /\ Len(SelectSeq(trace, IsRegWrite)) >= 15

\* the step is a call of execute_on_buffers on alveo that does not raise
LaunchesAlveo ==
    /\ pc = "ready" /\ call'.name = "execute_on_buffers" /\ ~HwFinishes
    /\ self.platform = "alveo" /\ result' \in {"running", "ok"}

\* C18: on alveo a successful launch starts every input engine, then every
\* external-weight engine, each on the buffer bound to it and with the batch
\* size given, before any output engine; then it starts every output engine
\* once, in index order, and stores the handle in the slot of that output:
\* after the launch every output channel holds a pending handle.
C18_AlveoLaunchOrder ==
    [][LaunchesAlveo =>
        LET bs == IF call'.batch_size = NoneBatch THEN self.batch_size
                  ELSE call'.batch_size
            ni == num_inputs(self)
            nw == Len(self.external_weights)
            no == num_outputs(self)
            st == SelectSeq(trace', LAMBDA e : e.op = "start")
        IN /\ Len(st) = ni + nw + no
           /\ \A i \in 1..ni :
                st[i] = Ev("start", "idma", i, self.ibuf_packed_device[i].id, bs)
           /\ \A w \in 1..nw :
                st[ni + w] = Ev("start", "iwdma", w, self.external_weights[w].id, bs)
           /\ \A o \in 1..no :
                /\ st[ni + nw + o] = Ev("start", "odma", o, self.obuf_packed_device[o].id, bs)
                /\ Cardinality(LaunchesOf(trace', o)) = 1
                /\ self.odma_handle[o] = None
                /\ self'.odma_handle[o] = Pending
           /\ Len(self'.odma_handle) = no
           /\ \A j \in 1..Len(trace') : trace'[j].op = "start"]_vars

\* an asynchronous launch on alveo with an external weight, two inputs and
\* two outputs has returned: both handles are pending
C18_Witness ==
    /\ self.platform = "alveo" /\ Returned("execute_on_buffers") /\ call.asynch
    /\ Len(self.external_weights) >= 1
    /\ num_inputs(self) = 2 /\ num_outputs(self) = 2
    /\ Len(trace) >= 5
    /\ \A o \in 1..2 : self.odma_handle[o] = Pending

\* ------------------------------------------------------------ the busy-wait
\* a wait on zynq-iodma that has returned: wait_until_finished itself, or
\* the one a blocking execute_on_buffers ends with
WaitReturned ==
    /\ self.platform = "zynq-iodma" /\ pc = "ready" /\ result = "ok"
    /\ \/ call.name = "wait_until_finished"
       \/ call.name = "execute_on_buffers" /\ ~call.asynch
\* the polls of the wait recorded in tr: every read of wait_until_finished,
\* the reads after the launch of execute_on_buffers
WaitReads(tr) ==
    {j \in Events(tr, "read") :
        call.name = "wait_until_finished" \/ \E i \in Events(tr, "write") : i < j}
\* blocked in the wait on zynq-iodma
Polling == self.platform = "zynq-iodma" /\ pc = "waiting"
\* every output engine the wait has still to go through was started
AllLaunched ==
    /\ self.odma = num_outputs(self)
    /\ \A o \in waitIdx..num_outputs(self) : hw[o] # StatusIdle

\* C19: on zynq-iodma wait_until_finished returns only after it has read a
\* status with the done bit (0x2), for every output engine and in index
\* order.  While the status of the engine it polls lacks the bit the call
\* stays blocked on that engine, without error, whatever the number of
\* polls; once every engine it has to go through was started and completes,
\* the call returns.
C19_BusyWait ==
    /\ [](WaitReturned =>
            /\ \A o \in 1..num_outputs(self) :
                 \E j \in WaitReads(trace) :
                    /\ trace[j].dev = "odma" /\ trace[j].idx = o /\ trace[j].a = 0
                    /\ (trace[j].b \div 2) % 2 = 1
            /\ \A i, j \in WaitReads(trace) : i < j => trace[i].idx < trace[j].idx)
    /\ [][(Polling /\ (hw[waitIdx] \div 2) % 2 = 0)
            => /\ pc' = "waiting" /\ result' = "running"
               /\ waitIdx' = waitIdx /\ trace' = trace /\ self' = self]_vars
    /\ (Polling /\ AllLaunched) ~> (pc = "ready" /\ result = "ok")

\* a blocking launch with two output engines has returned after reading the
\* done bit of both
C19_Witness ==
    /\ WaitReturned /\ call.name = "execute_on_buffers"
    /\ num_outputs(self) = 2
    /\ Cardinality(WaitReads(trace)) = 2
    /\ \A o \in 1..2 : hw[o] = StatusDone

\* --------------------------------------------------------- handle uniformity
AllPending(s) == \A k \in 1..Len(s.odma_handle) : s.odma_handle[k] = Pending
\* execute_on_buffers(asynch=True), wait_until_finished() would not raise
LaunchAccepted == execute_on_buffers(self, hw, TRUE, NoneBatch).err = "ok"
WaitAccepted == WaitEnter(self).err \in {"running", "ok"}

\* C21: on alveo, whenever the driver is between two operations, odma_handle
\* has one slot per output channel and the slots are all None or all
\* pending, so that exactly one of a launch and a wait is accepted.
C21_HandlesUniform ==
    (self.platform = "alveo" /\ pc = "ready")
        => /\ Len(self.odma_handle) = num_outputs(self)
           /\ NonePending(self) \/ AllPending(self)
           /\ LaunchAccepted # WaitAccepted

\* ------------------------------------------------------------ overlapping run
\* the packed bytes execute writes to the input buffer of input i
PackedRows(s, x, i) ==
    BroadcastTo(pack_input(s, Reshape(x, ishape_folded(s, i)), i),
                s.ibuf_packed_device[i].shape)

\* C22: execute copies every packed input into its device input buffer
\* ahead of the launch precondition.  On alveo, execute called with arrays
\* of the right number and shapes while the handles of an earlier
\* asynchronous launch are pending raises the overlap assertion with no
\* engine started and every handle still pending, after having folded,
\* packed and copied every input: the input buffers hold the new inputs.
C22_CopyBeforeOverlapCheck ==
    [][(/\ Executes /\ self.platform = "alveo" /\ SomePending(self)
        /\ Len(AsList(call'.input_npy)) = num_inputs(self)
        /\ FirstMisshapen(self, AsList(call'.input_npy), 1) = 0)
        => /\ result' = "AssertionError" /\ pc' = "ready"
           /\ Len(trace') = 3 * num_inputs(self)
           /\ \A i \in 1..num_inputs(self) :
                /\ trace'[3 * i - 2] = Ev("fold", "host", i, 0, 0)
                /\ trace'[3 * i - 1] = Ev("pack", "host", i, 0, 0)
                /\ trace'[3 * i] = Ev("copy_in", "ibuf", i, self.ibuf_packed_device[i].id, 0)
                /\ mem'[self.ibuf_packed_device[i].id]
                      = PackedRows(self, AsList(call'.input_npy)[i], i)
           /\ self' = self /\ AllPending(self') /\ hw' = hw
           /\ host' = host /\ ret' = NoValue]_vars

\* execute was refused on alveo while both handles of a launch were pending;
\* the output buffer holds what that launch transferred, the input buffer
\* now holds other data
C22_Witness ==
    /\ self.platform = "alveo" /\ pc = "ready"
    /\ call.name = "execute" /\ result = "AssertionError"
    /\ num_inputs(self) = 2 /\ AllPending(self) /\ Len(self.odma_handle) = 2
    /\ accel = "identity"
    /\ Len(trace) = 6
    /\ mem[self.obuf_packed_device[1].id][1] # Unknown
    /\ mem[self.ibuf_packed_device[1].id][1] # mem[self.obuf_packed_device[1].id][1]

====
